---- MODULE Spec2Model ----
(***************************************************************************)
(* Model of notebooks/nonlinear_poisson.ipynb: the manufactured-solution   *)
(* workflow for the nonlinear Poisson equation -div(q(u) grad u) = f.      *)
(*                                                                         *)
(* The notebook is a sequence of code cells In[1] .. In[10]; each cell is  *)
(* one action, run in order, and an exception raised inside a cell stops   *)
(* the run.  The state is the notebook's global namespace.                 *)
(*                                                                         *)
(* Symbolic expressions are polynomials in the two coordinate symbols and  *)
(* the constant pi with integer coefficients, or trees built over them by  *)
(* +, *, ** and unary minus.  Numbers are exact: a numeric value is a      *)
(* polynomial in pi over a positive denominator.                           *)
(***************************************************************************)
EXTENDS Integers, Sequences, FiniteSets, TLC

VARIABLES
  pc,              \* the cell to run next, "done" or "aborted"
  err,             \* the exception that stopped the run, or "none"
  ns,              \* what the names q and sym are bound to
  manufactured,    \* the exact solution typed in In[2]
  u, f,            \* the names u and f: symbolic first, FEniCS objects later
  f_raw,           \* f as derived, before sym.simplify
  u_code, f_code,  \* the emitted code strings
  u_D, mesh, V, bc, F,
  jit_log,         \* the code strings handed to Expression(...), in order
  solves,          \* the outcome of each solve(...) call, in order
  out,             \* the lines printed
  reports,         \* the numbers print_max_error printed, in order
  u0_at_vertices, u_at_vertices, \* the arrays the error evaluator last sampled
  table,           \* the entries print_errors last printed
  calls            \* the evaluator calls made from outside the cells, in order,
                   \* each with the position of the run it was made at

vars == <<pc, err, ns, manufactured, u, f, f_raw, u_code, f_code, u_D, mesh, V,
          bc, F, jit_log, solves, out, reports, u0_at_vertices, u_at_vertices,
          table, calls>>

(***************************************************************************)
(* Bounds of the model.                                                    *)
(***************************************************************************)
MaxCoef == 2
MaxDeg == 2
MaxSample == 2
MaxSlope == 2
MaxPert == 1
MaxLen == 3
MaxVal == 1
MaxCalls == 2

(***************************************************************************)
(* Integer helpers.                                                        *)
(***************************************************************************)
Abs(n) == IF n < 0 THEN -n ELSE n

RECURSIVE IPow(_, _)
IPow(b, n) == IF n = 0 THEN 1 ELSE b * IPow(b, n - 1)

RECURSIVE Gcd(_, _)
Gcd(a, b) == IF b = 0 THEN Abs(a) ELSE Gcd(b, a % Abs(b))

RECURSIVE SumF(_)
SumF(g) ==
  IF DOMAIN g = {} THEN 0
  ELSE LET m == CHOOSE m \in DOMAIN g : TRUE
       IN g[m] + SumF([k \in DOMAIN g \ {m} |-> g[k]])

(***************************************************************************)
(* Polynomials: a finite function from monomials <<i, j, k>> (the powers   *)
(* of the first coordinate, the second coordinate and pi) to non-zero      *)
(* integer coefficients.  This is the canonical (expanded) form of a       *)
(* SymPy expression in the two symbols.                                    *)
(***************************************************************************)
PolyZero == [m \in {} |-> 0]

Mono(i, j, k) == <<i, j, k>>

Term(c, m) == IF c = 0 THEN PolyZero ELSE [x \in {m} |-> c]

PolyConst(c) == Term(c, Mono(0, 0, 0))

Coef(p, m) == IF m \in DOMAIN p THEN p[m] ELSE 0

Trim(g) == [m \in {x \in DOMAIN g : g[x] # 0} |-> g[m]]

PolyAdd(p, r) ==
  Trim([m \in DOMAIN p \cup DOMAIN r |-> Coef(p, m) + Coef(r, m)])

PolyNeg(p) == [m \in DOMAIN p |-> -p[m]]

PolyScale(p, c) == Trim([m \in DOMAIN p |-> c * p[m]])

MAdd(a, b) == <<a[1] + b[1], a[2] + b[2], a[3] + b[3]>>

MFits(a, m) == a[1] <= m[1] /\ a[2] <= m[2] /\ a[3] <= m[3]

MSub(m, a) == <<m[1] - a[1], m[2] - a[2], m[3] - a[3]>>

PolyMul(p, r) ==
  LET D == {MAdd(a, b) : a \in DOMAIN p, b \in DOMAIN r}
      cf(m) == SumF([a \in {x \in DOMAIN p : MFits(x, m) /\ MSub(m, x) \in DOMAIN r}
                       |-> p[a] * r[MSub(m, a)]])
  IN Trim([m \in D |-> cf(m)])

RECURSIVE PolyPow(_, _)
PolyPow(p, n) == IF n = 0 THEN PolyConst(1) ELSE PolyMul(p, PolyPow(p, n - 1))

MDec(m, v) == [m EXCEPT ![v] = @ - 1]

MInc(m, v) == [m EXCEPT ![v] = @ + 1]

\* d/d(symbol v) of a polynomial, term by term (power rule); v = 1 or 2.
PolyDiff(p, v) ==
  [m \in {MDec(x, v) : x \in {y \in DOMAIN p : y[v] > 0}}
     |-> (m[v] + 1) * p[MInc(m, v)]]

HasPi(p) == \E m \in DOMAIN p : m[3] > 0

(***************************************************************************)
(* Numeric values: n / d with n a polynomial in pi alone and d > 0, kept   *)
(* in lowest terms.                                                        *)
(***************************************************************************)
RECURSIVE GcdSet(_, _)
GcdSet(S, g) ==
  IF S = {} THEN g
  ELSE LET x == CHOOSE x \in S : TRUE IN GcdSet(S \ {x}, Gcd(g, x))

NumNorm(n, d) ==
  IF d = 1 THEN [n |-> n, d |-> 1]
  ELSE LET g == GcdSet({n[m] : m \in DOMAIN n}, d)
       IN [n |-> [m \in DOMAIN n |-> n[m] \div g], d |-> d \div g]

NumInt(c) == [n |-> PolyConst(c), d |-> 1]

NumRat(a, b) == NumNorm(PolyConst(a), b)

NumPi == [n |-> Term(1, Mono(0, 0, 1)), d |-> 1]

\* A value that is a plain integer, and that integer.
IsInt(a) == a.d = 1 /\ DOMAIN a.n \subseteq {Mono(0, 0, 0)}

IntOf(a) == Coef(a.n, Mono(0, 0, 0))

NumAdd(a, b) ==
  IF IsInt(a) /\ IsInt(b) THEN NumInt(IntOf(a) + IntOf(b))
  ELSE NumNorm(PolyAdd(PolyScale(a.n, b.d), PolyScale(b.n, a.d)), a.d * b.d)

NumMul(a, b) ==
  IF IsInt(a) /\ IsInt(b) THEN NumInt(IntOf(a) * IntOf(b))
  ELSE NumNorm(PolyMul(a.n, b.n), a.d * b.d)

NumNeg(a) == [n |-> PolyNeg(a.n), d |-> a.d]

RECURSIVE NumPow(_, _)
NumPow(a, k) == IF k = 0 THEN NumInt(1) ELSE NumMul(a, NumPow(a, k - 1))

\* The coordinates of a point are rationals free of pi.
RatNum(X) == Coef(X.n, Mono(0, 0, 0))

MaxPower(p, v) ==
  IF DOMAIN p = {} THEN 0
  ELSE LET m == CHOOSE m \in DOMAIN p : \A o \in DOMAIN p : o[v] <= m[v]
       IN m[v]

\* The value of polynomial p with the first symbol bound to X, the second to
\* Y: the terms are summed power of pi by power of pi, over the common
\* denominator X.d^dx * Y.d^dy.
EvalPoly(p, X, Y) ==
  LET dx == MaxPower(p, 1)
      dy == MaxPower(p, 2)
      tv(m) == p[m] * IPow(RatNum(X), m[1]) * IPow(X.d, dx - m[1])
                    * IPow(RatNum(Y), m[2]) * IPow(Y.d, dy - m[2])
      ks == {Mono(0, 0, m[3]) : m \in DOMAIN p}
  IN NumNorm(Trim([km \in ks |->
                    SumF([m \in {z \in DOMAIN p : z[3] = km[3]} |-> tv(m)])]),
             IPow(X.d, dx) * IPow(Y.d, dy))

(***************************************************************************)
(* Expression trees, as SymPy builds them from Python arithmetic.          *)
(***************************************************************************)
Leaf(p) == [op |-> "poly", p |-> p]

EAdd(a, b) == [op |-> "add", l |-> a, r |-> b]

EMul(a, b) == [op |-> "mul", l |-> a, r |-> b]

EPow(a, n) == [op |-> "pow", b |-> a, n |-> n]

ENeg(a) == [op |-> "neg", a |-> a]

\* def q(u): return 1 + u**2
q(w) == EAdd(Leaf(PolyConst(1)), EPow(w, 2))

\* A differentiation that forgets the inner derivative of a power.
RECURSIVE diffNoChain(_, _)
diffNoChain(e, v) ==
  CASE e.op = "poly" -> Leaf(PolyDiff(e.p, v))
    [] e.op = "add" -> EAdd(diffNoChain(e.l, v), diffNoChain(e.r, v))
    [] e.op = "neg" -> ENeg(diffNoChain(e.a, v))
    [] e.op = "mul" ->
         EAdd(EMul(diffNoChain(e.l, v), e.r), EMul(e.l, diffNoChain(e.r, v)))
    [] e.op = "pow" ->
         IF e.n = 0 THEN Leaf(PolyZero)
         ELSE EMul(Leaf(PolyConst(e.n)), EPow(e.b, e.n - 1))

\* sym.diff(e, v): sum, product and chain (power) rules.
RECURSIVE diff(_, _)
diff(e, v) ==
  CASE e.op = "poly" -> Leaf(PolyDiff(e.p, v))
    [] e.op = "add" -> EAdd(diff(e.l, v), diff(e.r, v))
    [] e.op = "neg" -> ENeg(diff(e.a, v))
    [] e.op = "mul" -> EAdd(EMul(diff(e.l, v), e.r), EMul(e.l, diff(e.r, v)))
    [] e.op = "pow" ->
         IF e.n = 0 THEN Leaf(PolyZero)
         ELSE EMul(EMul(Leaf(PolyConst(e.n)), EPow(e.b, e.n - 1)), diff(e.b, v))

\* sym.simplify(e) on a polynomial expression: the expanded canonical form.
RECURSIVE simplify(_)
simplify(e) ==
  CASE e.op = "poly" -> e.p
    [] e.op = "add" -> PolyAdd(simplify(e.l), simplify(e.r))
    [] e.op = "neg" -> PolyNeg(simplify(e.a))
    [] e.op = "mul" -> PolyMul(simplify(e.l), simplify(e.r))
    [] e.op = "pow" -> PolyPow(simplify(e.b), e.n)

\* Numeric value of a tree at a point, evaluated node by node.
RECURSIVE EvalExpr(_, _, _)
EvalExpr(e, X, Y) ==
  CASE e.op = "poly" -> EvalPoly(e.p, X, Y)
    [] e.op = "add" -> NumAdd(EvalExpr(e.l, X, Y), EvalExpr(e.r, X, Y))
    [] e.op = "neg" -> NumNeg(EvalExpr(e.a, X, Y))
    [] e.op = "mul" -> NumMul(EvalExpr(e.l, X, Y), EvalExpr(e.r, X, Y))
    [] e.op = "pow" -> NumPow(EvalExpr(e.b, X, Y), e.n)

\* A source term that leaves out the y part of the divergence.
SourceTermXOnly(w) == ENeg(diff(EMul(q(w), diff(w, 1)), 1))

\* f = - sym.diff(q(u)*sym.diff(u, x), x) - sym.diff(q(u)*sym.diff(u, y), y)
SourceTerm(w) ==
  EAdd(ENeg(diff(EMul(q(w), diff(w, 1)), 1)),
       ENeg(diff(EMul(q(w), diff(w, 2)), 2)))

(***************************************************************************)
(* Code strings.  A code string is kept as the sequence of its lexical     *)
(* tokens; Text gives the characters.  A token is a number, a name or      *)
(* punctuation.                                                            *)
(***************************************************************************)
TNum(n) == [k |-> "num", s |-> ToString(n), v |-> n]

TName(s) == [k |-> "name", s |-> s, v |-> 0]

TPunct(s) == [k |-> "punct", s |-> s, v |-> 0]

RECURSIVE Text(_)
Text(toks) == IF toks = <<>> THEN "" ELSE Head(toks).s \o Text(Tail(toks))

\* x, y = sym.symbols('x[0], x[1]'): the names the two symbols print as.
\* The names sym.symbols('x, y') would give.
BareNames == <<"x", "y">>

SymbolNames == <<"x[0]", "x[1]">>

\* The C macro SymPy's C printer writes for the constant pi.
PiMacro == "M_PI"

\* SymPy's term order: by the powers of the symbols, highest first, the first
\* symbol before the second; terms that differ only in pi by its power.
TermBefore(a, b) ==
  \/ a[1] > b[1]
  \/ a[1] = b[1] /\ a[2] > b[2]
  \/ a[1] = b[1] /\ a[2] = b[2] /\ a[3] < b[3]

RECURSIVE OrderedTerms(_)
OrderedTerms(S) ==
  IF S = {} THEN <<>>
  ELSE LET m == CHOOSE m \in S : \A o \in S \ {m} : TermBefore(m, o)
       IN <<m>> \o OrderedTerms(S \ {m})

\* One factor name**e in C: name, or pow(name, e).
FactorCode(name, e) ==
  IF e = 0 THEN <<>>
  ELSE IF e = 1 THEN << <<TName(name)>> >>
  ELSE << <<TPunct("pow("), TName(name), TPunct(", "), TNum(e), TPunct(")")>> >>

RECURSIVE JoinStar(_)
JoinStar(fs) ==
  IF Len(fs) = 0 THEN <<>>
  ELSE IF Len(fs) = 1 THEN fs[1]
  ELSE fs[1] \o <<TPunct("*")>> \o JoinStar(Tail(fs))

\* A term |c| * pi**k * x**i * y**j; a coefficient of 1 is written only when
\* nothing else is.
TermCode(c, m) ==
  JoinStar((IF c # 1 \/ m = Mono(0, 0, 0) THEN << <<TNum(c)>> >> ELSE <<>>)
           \o FactorCode(PiMacro, m[3])
           \o FactorCode(SymbolNames[1], m[1])
           \o FactorCode(SymbolNames[2], m[2]))

RECURSIVE RestCode(_, _)
RestCode(p, ms) ==
  IF ms = <<>> THEN <<>>
  ELSE LET m == Head(ms)
       IN <<TPunct(IF p[m] < 0 THEN " - " ELSE " + ")>>
          \o TermCode(Abs(p[m]), m) \o RestCode(p, Tail(ms))

\* sym.printing.ccode(e) for e in canonical form.
ccode(p) ==
  IF DOMAIN p = {} THEN <<TNum(0)>>
  ELSE LET ms == OrderedTerms(DOMAIN p)
           m == Head(ms)
       IN (IF p[m] < 0 THEN <<TPunct("-")>> ELSE <<>>)
          \o TermCode(Abs(p[m]), m) \o RestCode(p, Tail(ms))

(***************************************************************************)
(* The Expression evaluator: the names it knows and the value of a code    *)
(* string at a point.                                                      *)
(***************************************************************************)
\* Expression objects take x[0], x[1] and pi; M_PI "must be replaced by pi".
KnownNames == {"x[0]", "x[1]", "pi"}

Compiles(toks) ==
  \A i \in 1..Len(toks) : toks[i].k = "name" => toks[i].s \in KnownNames

ParseFail == [ok |-> FALSE, v |-> NumInt(0), nx |-> 0]

IsPunct(toks, i, s) == i <= Len(toks) /\ toks[i].k = "punct" /\ toks[i].s = s

RECURSIVE ParseFactor(_, _, _, _)
ParseFactor(toks, i, X, Y) ==
  IF i > Len(toks) THEN ParseFail
  ELSE LET t == toks[i] IN
    CASE t.k = "num" -> [ok |-> TRUE, v |-> NumInt(t.v), nx |-> i + 1]
      [] t.k = "name" ->
           IF t.s = "x[0]" THEN [ok |-> TRUE, v |-> X, nx |-> i + 1]
           ELSE IF t.s = "x[1]" THEN [ok |-> TRUE, v |-> Y, nx |-> i + 1]
           ELSE IF t.s = "pi" THEN [ok |-> TRUE, v |-> NumPi, nx |-> i + 1]
           ELSE ParseFail
      [] t.k = "punct" ->
           IF t.s # "pow(" THEN ParseFail
           ELSE LET b == ParseFactor(toks, i + 1, X, Y) IN
                IF /\ b.ok
                   /\ IsPunct(toks, b.nx, ", ")
                   /\ b.nx + 1 <= Len(toks) /\ toks[b.nx + 1].k = "num"
                   /\ IsPunct(toks, b.nx + 2, ")")
                THEN [ok |-> TRUE, v |-> NumPow(b.v, toks[b.nx + 1].v),
                      nx |-> b.nx + 3]
                ELSE ParseFail

RECURSIVE ParseTermRest(_, _, _, _, _)
ParseTermRest(toks, acc, i, X, Y) ==
  IF IsPunct(toks, i, "*")
  THEN LET g == ParseFactor(toks, i + 1, X, Y) IN
       IF g.ok THEN ParseTermRest(toks, NumMul(acc, g.v), g.nx, X, Y)
       ELSE ParseFail
  ELSE [ok |-> TRUE, v |-> acc, nx |-> i]

ParseTerm(toks, i, X, Y) ==
  LET g == ParseFactor(toks, i, X, Y) IN
  IF g.ok THEN ParseTermRest(toks, g.v, g.nx, X, Y) ELSE ParseFail

RECURSIVE ParseExprRest(_, _, _, _, _)
ParseExprRest(toks, acc, i, X, Y) ==
  IF i = Len(toks) + 1 THEN [ok |-> TRUE, v |-> acc, nx |-> i]
  ELSE IF IsPunct(toks, i, " + ") \/ IsPunct(toks, i, " - ")
  THEN LET g == ParseTerm(toks, i + 1, X, Y) IN
       IF g.ok
       THEN ParseExprRest(toks,
              NumAdd(acc, IF toks[i].s = " - " THEN NumNeg(g.v) ELSE g.v),
              g.nx, X, Y)
       ELSE ParseFail
  ELSE ParseFail

\* The value the evaluator gives the code string with x[0] = X and x[1] = Y.
EvalCode(toks, X, Y) ==
  LET neg == IsPunct(toks, 1, "-")
      g == ParseTerm(toks, IF neg THEN 2 ELSE 1, X, Y)
  IN IF g.ok
     THEN ParseExprRest(toks, IF neg THEN NumNeg(g.v) ELSE g.v, g.nx, X, Y)
     ELSE ParseFail

(***************************************************************************)
(* The manufactured solutions the model runs the notebook on.  The         *)
(* notebook's own is u = 1 + x + 2*y.                                      *)
(***************************************************************************)
Coefs == (-MaxCoef)..MaxCoef

\* The constant term: an integer, or pi.
ConstTerms == {PolyConst(c) : c \in Coefs} \cup {Term(1, Mono(0, 0, 1))}

PolyInput(k0, cx, ex, cy, ey) ==
  PolyAdd(k0, PolyAdd(Term(cx, Mono(ex, 0, 0)), Term(cy, Mono(0, ey, 0))))

\* u = 1 + x + 2*y
Literal == PolyInput(PolyConst(1), 1, 1, 2, 1)

\* The solutions the whole notebook is run on: k0 + cx*x + cy*y with
\* coefficients in 0..MaxSlope, or with pi for k0.
AffineInputs ==
  {PolyInput(k0, cx, 1, cy, 1) :
     k0 \in {PolyConst(c) : c \in 0..MaxSlope} \cup {Term(1, Mono(0, 0, 1))},
     cx \in 0..MaxSlope, cy \in 0..MaxSlope}

SymInputs ==
  UNION {{PolyInput(k0, cx, ex, cy, ey) :
            k0 \in ConstTerms, cx \in Coefs, cy \in Coefs} :
         ex \in 1..MaxDeg, ey \in 1..MaxDeg}

Samples == 0..MaxSample

(***************************************************************************)
(* The notebook's namespace before the first cell runs.                    *)
(***************************************************************************)
Unbound == [kind |-> "unbound"]

Blank(inputs) ==
  /\ pc = "In1"
  /\ err = "none"
  /\ ns = [q |-> "unbound", sym |-> "unbound"]
  /\ manufactured \in inputs
  /\ u = Unbound
  /\ f = Unbound
  /\ f_raw = Unbound
  /\ u_code = <<>>
  /\ f_code = <<>>
  /\ u_D = Unbound
  /\ mesh = Unbound
  /\ V = Unbound
  /\ bc = Unbound
  /\ F = Unbound
  /\ jit_log = <<>>
  /\ solves = <<>>
  /\ out = <<>>
  /\ reports = <<>>
  /\ u0_at_vertices = <<>>
  /\ u_at_vertices = <<>>
  /\ table = <<>>
  /\ calls = <<>>

\* Expression(code, degree=1): the string goes to the evaluator as it is.
Expression(code) == [kind |-> "expr", code |-> code, degree |-> 1]

\* A first cell with the order turned round: def q, then the import, which
\* rebinds q and sym to the library's objects.
In1ImportLast ==
  /\ pc = "In1"
  /\ ns' = [q |-> "fenics", sym |-> "fenics"]
  /\ pc' = "In2"
  /\ UNCHANGED <<err, manufactured, u, f, f_raw, u_code, f_code, u_D, mesh,
                 V, bc, F, jit_log, solves, out, reports, u0_at_vertices,
                 u_at_vertices, table, calls>>

(***************************************************************************)
(* In[1]: from fenics import * (which binds q and sym), then def q.        *)
(***************************************************************************)
In1 ==
  /\ pc = "In1"
  /\ ns' = [q |-> "user", sym |-> "fenics"]
  /\ pc' = "In2"
  /\ UNCHANGED <<err, manufactured, u, f, f_raw, u_code, f_code, u_D, mesh,
                 V, bc, F, jit_log, solves, out, reports, u0_at_vertices,
                 u_at_vertices, table, calls>>

(***************************************************************************)
(* In[2]: import sympy as sym; the symbols; u; f derived and simplified.   *)
(***************************************************************************)
In2 ==
  /\ pc = "In2"
  /\ ns' = [ns EXCEPT !.sym = "sympy"]
  /\ u' = [kind |-> "sym", p |-> manufactured]
  /\ f_raw' = SourceTerm(Leaf(manufactured))
  /\ f' = [kind |-> "sym", p |-> simplify(f_raw')]
  /\ pc' = "In3"
  /\ UNCHANGED <<err, manufactured, u_code, f_code, u_D, mesh, V, bc, F,
                 jit_log, solves, out, reports, u0_at_vertices, u_at_vertices,
                 table, calls>>

(***************************************************************************)
(* In[3]: u_code, f_code = ccode(u), ccode(f); both are printed.           *)
(***************************************************************************)
In3 ==
  /\ pc = "In3"
  /\ u_code' = ccode(u.p)
  /\ f_code' = ccode(f.p)
  /\ out' = out \o <<"u = " \o Text(u_code'), "f = " \o Text(f_code')>>
  /\ pc' = "In4"
  /\ UNCHANGED <<err, ns, manufactured, u, f, f_raw, u_D, mesh, V, bc, F,
                 jit_log, solves, reports, u0_at_vertices, u_at_vertices,
                 table, calls>>

(***************************************************************************)
(* In[4]: u_D = Expression(u_code, degree=1).  A name the evaluator does   *)
(* not know fails the compilation of the expression.                       *)
(***************************************************************************)
In4 ==
  /\ pc = "In4"
  /\ jit_log' = Append(jit_log, u_code)
  /\ IF Compiles(u_code)
     THEN /\ u_D' = Expression(u_code)
          /\ pc' = "In5"
          /\ err' = err
     ELSE /\ u_D' = u_D
          /\ pc' = "aborted"
          /\ err' = "CompileError"
  /\ UNCHANGED <<ns, manufactured, u, f, f_raw, u_code, f_code, mesh, V, bc,
                 F, solves, out, reports, u0_at_vertices, u_at_vertices,
                 table, calls>>

(***************************************************************************)
(* In[5]: f = Expression(f_code, degree=1).                                *)
(***************************************************************************)
In5 ==
  /\ pc = "In5"
  /\ jit_log' = Append(jit_log, f_code)
  /\ IF Compiles(f_code)
     THEN /\ f' = Expression(f_code)
          /\ pc' = "In6"
          /\ err' = err
     ELSE /\ f' = f
          /\ pc' = "aborted"
          /\ err' = "CompileError"
  /\ UNCHANGED <<ns, manufactured, u, f_raw, u_code, f_code, u_D, mesh, V,
                 bc, F, solves, out, reports, u0_at_vertices, u_at_vertices,
                 table, calls>>

(***************************************************************************)
(* UnitSquareMesh(8, 8): (Nx + 1) * (Ny + 1) vertices, numbered row by row *)
(* from the lower left corner, and two triangles in every cell, cut by the *)
(* diagonal from the cell's lower left to its upper right vertex.          *)
(***************************************************************************)
Nx == 8
Ny == 8

UnitSquareMesh(nx, ny) == [kind |-> "mesh", nx |-> nx, ny |-> ny]

FunctionSpace(m, family, degree) ==
  [kind |-> "space", mesh |-> m, family |-> family, degree |-> degree]

Vertices == 1..((Nx + 1) * (Ny + 1))

VId(i, j) == j * (Nx + 1) + i + 1

Col(k) == (k - 1) % (Nx + 1)

Row(k) == (k - 1) \div (Nx + 1)

\* V.mesh().coordinates()[k - 1]
Coordinates(k) == <<NumRat(Col(k), Nx), NumRat(Row(k), Ny)>>

OnBoundary(k) == Col(k) \in {0, Nx} \/ Row(k) \in {0, Ny}

\* A predicate that marks the left edge only.
boundaryLeftOnly(x, on_boundary) == on_boundary /\ RatNum(x[1]) = 0

\* def boundary(x, on_boundary): return on_boundary
boundary(x, on_boundary) == on_boundary

(***************************************************************************)
(* Vertex values are kept as integers in units of 1/Scale: the values at   *)
(* the mesh vertices of an affine expression with integer coefficients are *)
(* whole multiples of it.                                                  *)
(***************************************************************************)
Scale == (Nx * Ny) \div Gcd(Nx, Ny)

ToFixed(v) == (RatNum(v) * Scale) \div v.d

\* The value of an Expression at vertex k.
AtVertex(e, k) ==
  ToFixed(EvalCode(e.code, NumRat(Col(k), Nx), NumRat(Row(k), Ny)).v)

\* interpolate(e, V).compute_vertex_values()
interpolate(e) == [k \in Vertices |-> AtVertex(e, k)]

\* Function(V): all degrees of freedom zero.
Function == [kind |-> "fun", vals |-> [k \in Vertices |-> 0]]

\* The vertices DirichletBC marks: those where sub_domain(x, on_boundary),
\* here boundary, returns True.
Marked ==
  {k \in Vertices :
     boundary(<<NumRat(Col(k), Nx), NumRat(Row(k), Ny)>>, OnBoundary(k))}

\* DirichletBC(V, g, boundary): the constrained vertices and their values.
DirichletBC(g) ==
  [kind |-> "bc", g |-> g, dofs |-> Marked,
   vals |-> [k \in Marked |-> AtVertex(g, k)]]

ApplyBC(b, U) == [k \in Vertices |-> IF k \in b.dofs THEN b.vals[k] ELSE U[k]]

(***************************************************************************)
(* F = q(u)*dot(grad(u), grad(v))*dx - f*v*dx, assembled exactly for P1    *)
(* fields.  On a triangle with vertex values U1, U2, U3 (in units of       *)
(* 1/Scale) the integral of q(u) = 1 + u^2 is                              *)
(*   area * (6*Scale^2 + U1^2 + U2^2 + U3^2 + U1*U2 + U1*U3 + U2*U3)       *)
(*        / (6*Scale^2),                                                   *)
(* grad(u) and grad(v) are constant, and f enters by its P1 interpolant    *)
(* (degree=1).  Residual is the entry of the assembled vector at vertex k, *)
(* times the positive constant 24*Nx*Ny*Scale^3 / AspectGcd.               *)
(***************************************************************************)
AspectGcd == Gcd(Gcd(Nx * Nx, Ny * Ny), Scale * Scale)

Wx == (Nx * Nx) \div AspectGcd

Wy == (Ny * Ny) \div AspectGcd

Wf == (Scale * Scale) \div AspectGcd

\* A triangle's share with q(u) taken as 1: the linear Poisson equation.
TriTermLinear(dux, duy, gx, gy, U1, U2, U3, fk, f1, f2, f3) ==
  2 * (dux * gx * Wx + duy * gy * Wy) * (6 * Scale * Scale)
  - Wf * (fk + f1 + f2 + f3)

\* One triangle's share of F at one of its vertices: dux, duy are the
\* differences of u along x and y, gx, gy those of the vertex's hat function,
\* fk the value of f at the vertex.
TriTerm(dux, duy, gx, gy, U1, U2, U3, fk, f1, f2, f3) ==
  2 * (dux * gx * Wx + duy * gy * Wy)
    * (6 * Scale * Scale + U1 * U1 + U2 * U2 + U3 * U3
         + U1 * U2 + U1 * U3 + U2 * U3)
  - Wf * (fk + f1 + f2 + f3)

\* The lower triangle of cell (i, j): A = (i, j), B = (i+1, j), C = (i+1, j+1).
Lower(U, fv, i, j, gx, gy, k) ==
  LET a == VId(i, j)  b == VId(i + 1, j)  c == VId(i + 1, j + 1)
  IN TriTerm(U[b] - U[a], U[c] - U[b], gx, gy, U[a], U[b], U[c],
             fv[k], fv[a], fv[b], fv[c])

\* The upper triangle of cell (i, j): A = (i, j), D = (i, j+1), C = (i+1, j+1).
Upper(U, fv, i, j, gx, gy, k) ==
  LET a == VId(i, j)  d == VId(i, j + 1)  c == VId(i + 1, j + 1)
  IN TriTerm(U[c] - U[d], U[d] - U[a], gx, gy, U[a], U[d], U[c],
             fv[k], fv[a], fv[d], fv[c])

Residual(U, fv, k) ==
  LET i == Col(k)  j == Row(k)
  IN (IF i < Nx /\ j < Ny
      THEN Lower(U, fv, i, j, -1, 0, k) + Upper(U, fv, i, j, 0, -1, k) ELSE 0)
   + (IF i > 0 /\ j < Ny THEN Lower(U, fv, i - 1, j, 1, -1, k) ELSE 0)
   + (IF i < Nx /\ j > 0 THEN Upper(U, fv, i, j - 1, -1, 1, k) ELSE 0)
   + (IF i > 0 /\ j > 0
      THEN Lower(U, fv, i - 1, j - 1, 0, 1, k)
             + Upper(U, fv, i - 1, j - 1, 1, 0, k)
      ELSE 0)

MaxOf(S) == CHOOSE m \in S : \A z \in S : z <= m

\* The largest entry of the residual vector over the unconstrained vertices.
ResidualNorm(U, fv, free) ==
  MaxOf({0} \cup {Abs(Residual(U, fv, k)) : k \in free})

(***************************************************************************)
(* solve(F == 0, u, bc): Newton's method, started from u with the boundary *)
(* values set.  The iteration is FEniCS's own and is not followed here:    *)
(* what it returns is a field that meets the boundary condition and whose  *)
(* residual passes the convergence test, and it may also give up.  The     *)
(* fields it can return are looked for among the interpolant of the        *)
(* boundary expression and that field moved by up to MaxPert units at one  *)
(* free vertex; when none of them passes, the answer is off this family    *)
(* and any member stands for it.                                           *)
(***************************************************************************)
DefaultRelTolInv == 1000000000
RelTolInv == 1000000

\* Converged: the residual is zero, or below relative_tolerance times the
\* residual r0 of the starting field.
Converged(r, r0, tolInv) == r = 0 \/ (r0 > 0 /\ r <= (r0 - 1) \div tolInv)

Perturbations(b) ==
  {[k |-> k, d |-> d] :
     k \in Vertices \ b.dofs, d \in ((-MaxPert)..MaxPert) \ {0}}

Perturb(U, c) == [U EXCEPT ![c.k] = @ + c.d]

Passes(U, fv, free, first, r0, tolInv) ==
  /\ Converged(Abs(Residual(U, fv, first)), r0, tolInv)
  /\ \A k \in free : Converged(Abs(Residual(U, fv, k)), r0, tolInv)

\* The outcomes, given the starting field, its residual norm r0, the
\* interpolant 'base' of the boundary expression and the vertex values fv of f.
Outcomes(start, r0, base, fv, b, tolInv, recorded) ==
  LET free == Vertices \ b.dofs
      moved == {Perturb(base, c) : c \in Perturbations(b)}
      roots ==
        {U \in {base} :
           Passes(U, fv, free, CHOOSE k \in free : TRUE, r0, tolInv)}
          \cup {Perturb(base, c) :
                  c \in {z \in Perturbations(b) :
                           Passes(Perturb(base, z), fv, free, z.k, r0, tolInv)}}
  IN {[ok |-> TRUE, vals |-> U] :
        U \in IF roots = {} THEN {base} \cup moved ELSE roots}
     \cup (IF recorded THEN {}
           ELSE {[ok |-> FALSE, vals |-> U] :
                   U \in ({base} \cup moved) \ roots})

FromStart(start, fv, form, b, tolInv, recorded) ==
  LET r0 == ResidualNorm(start, fv, Vertices \ b.dofs)
  IN IF r0 = 0
     THEN {[ok |-> TRUE, vals |-> start]}
     ELSE Outcomes(start, r0, ApplyBC(b, interpolate(b.g)), fv, b, tolInv,
                   recorded)

NewtonSolve(form, U0, b, tolInv, recorded) ==
  FromStart(ApplyBC(b, U0), interpolate(form.f), form, b, tolInv, recorded)

\* No run taken as recorded: every solve that has to iterate may give up.
NothingRecorded == FALSE

\* The run whose outputs the notebook records: there both solves returned.
Recorded ==
  /\ Text(u_code) = "x[0] + 2*x[1] + 1"
  /\ Text(f_code) = "-10*x[0] - 20*x[1] - 10"

(***************************************************************************)
(* numpy on one-dimensional arrays.  a - b is elementwise for equal        *)
(* lengths, an array of length 1 is stretched to the other's length, and   *)
(* any other pair of lengths raises ValueError; np.max of an empty array   *)
(* raises ValueError.                                                      *)
(***************************************************************************)
\* The subtraction with its operands swapped.
NpSubSwapped(a, b) ==
  IF Len(a) = Len(b)
  THEN [ok |-> TRUE, v |-> [i \in 1..Len(a) |-> b[i] - a[i]]]
  ELSE [ok |-> FALSE, v |-> <<>>]

NpSub(a, b) ==
  IF Len(a) = Len(b)
  THEN [ok |-> TRUE, v |-> [i \in 1..Len(a) |-> a[i] - b[i]]]
  ELSE IF Len(a) = 1
  THEN [ok |-> TRUE, v |-> [i \in 1..Len(b) |-> a[1] - b[i]]]
  ELSE IF Len(b) = 1
  THEN [ok |-> TRUE, v |-> [i \in 1..Len(a) |-> a[i] - b[1]]]
  ELSE [ok |-> FALSE, v |-> <<>>]

NpMax(s) ==
  IF Len(s) = 0 THEN [ok |-> FALSE, v |-> 0]
  ELSE [ok |-> TRUE, v |-> MaxOf({s[i] : i \in 1..Len(s)})]

\* str(float) of a value given in units of 1/Scale.
Digits3(n) ==
  ToString(n \div 100)
    \o (IF n % 100 # 0 THEN ToString((n \div 10) % 10) ELSE "")
    \o (IF n % 10 # 0 THEN ToString(n % 10) ELSE "")

FloatStr(r) ==
  (IF r < 0 THEN "-" ELSE "") \o ToString(Abs(r) \div Scale) \o "."
    \o Digits3(((Abs(r) % Scale) * 1000) \div Scale)

\* The body of print_max_error() on the two sampled arrays.
print_max_error(a, b, next) ==
  LET d == NpSub(a, b)
      m == NpMax(d.v)
  IN /\ u0_at_vertices' = a
     /\ u_at_vertices' = b
     /\ IF d.ok /\ m.ok
        THEN /\ reports' = Append(reports, m.v)
             /\ out' = Append(out, "Max error is:  " \o FloatStr(m.v))
             /\ pc' = next
             /\ err' = err
        ELSE /\ reports' = reports
             /\ out' = out
             /\ pc' = "aborted"
             /\ err' = "ValueError"

\* '%g' of a value given in units of 1/Scale, and '%<n>s' padding.
GStr(r) ==
  (IF r < 0 THEN "-" ELSE "") \o ToString(Abs(r) \div Scale)
    \o (IF Abs(r) % Scale = 0 THEN ""
        ELSE "." \o Digits3(((Abs(r) % Scale) * 1000) \div Scale))

RECURSIVE Pad(_, _)
Pad(str, n) == IF Len(str) >= n THEN str ELSE Pad(" " \o str, n)

Min(a, b) == IF a <= b THEN a ELSE b

\* A body that pairs vertex i with the difference at the vertex after it.
print_errors_shifted(coor, a, b, next) ==
  LET n == Min(Len(coor), Min(Len(a), Len(b)))
  IN /\ u0_at_vertices' = a
     /\ u_at_vertices' = b
     /\ table' = [i \in 1..n |->
                    [i |-> i - 1, x |-> coor[i],
                     error |-> a[(i % n) + 1] - b[(i % n) + 1]]]
     /\ out' = out
     /\ pc' = next
     /\ err' = err

\* The body of print_errors() on the vertex coordinates and the two sampled
\* arrays: one line per vertex, in the order of coor; an index past the end
\* of an array raises IndexError after the lines before it are printed.
print_errors(coor, a, b, next) ==
  LET n == Min(Len(coor), Min(Len(a), Len(b)))
      entry(i) == [i |-> i - 1, x |-> coor[i], error |-> a[i] - b[i]]
      line(i) ==
        "vertex " \o Pad(ToString(i - 1), 2) \o " ("
          \o Pad(GStr(ToFixed(coor[i][1])), 9) \o ","
          \o Pad(GStr(ToFixed(coor[i][2])), 9) \o "): error="
          \o GStr(a[i] - b[i])
  IN /\ u0_at_vertices' = a
     /\ u_at_vertices' = b
     /\ table' = [i \in 1..n |-> entry(i)]
     /\ out' = out \o [i \in 1..n |-> line(i)]
     /\ IF n = Len(coor)
        THEN /\ pc' = next
             /\ err' = err
        ELSE /\ pc' = "aborted"
             /\ err' = "IndexError"

(***************************************************************************)
(* The symbolic part of the notebook alone, over polynomial solutions of   *)
(* degree up to MaxDeg.                                                    *)
(***************************************************************************)
InitSym == Blank(SymInputs)

NextSym == In1 \/ In2 \/ In3 \/ In4 \/ In5

SpecSym == InitSym /\ [][NextSym]_vars

(***************************************************************************)
(* In[6]: the mesh, the space, and u rebound to a Function on it.          *)
(***************************************************************************)
In6 ==
  /\ pc = "In6"
  /\ mesh' = UnitSquareMesh(Nx, Ny)
  /\ V' = FunctionSpace(mesh', "P", 1)
  /\ u' = Function
  /\ pc' = "In7"
  /\ UNCHANGED <<err, ns, manufactured, f, f_raw, u_code, f_code, u_D, bc, F,
                 jit_log, solves, out, reports, u0_at_vertices, u_at_vertices,
                 table, calls>>

(***************************************************************************)
(* In[7]: def boundary; u_D = Expression(u_code, degree=1);                *)
(* bc = DirichletBC(V, u_D, boundary).                                     *)
(***************************************************************************)
In7 ==
  /\ pc = "In7"
  /\ jit_log' = Append(jit_log, u_code)
  /\ IF Compiles(u_code)
     THEN /\ u_D' = Expression(u_code)
          /\ bc' = DirichletBC(u_D')
          /\ pc' = "In8"
          /\ err' = err
     ELSE /\ UNCHANGED <<u_D, bc>>
          /\ pc' = "aborted"
          /\ err' = "CompileError"
  /\ UNCHANGED <<ns, manufactured, u, f, f_raw, u_code, f_code, mesh, V, F,
                 solves, out, reports, u0_at_vertices, u_at_vertices,
                 table, calls>>

\* A solve cell that swallows the solver's exception and goes on.
In8Swallow ==
  /\ pc = "In8"
  /\ jit_log' = Append(jit_log, f_code)
  /\ f' = Expression(f_code)
  /\ F' = [kind |-> "form", f |-> f']
  /\ \E o \in NewtonSolve(F', u.vals, bc, DefaultRelTolInv, Recorded) :
       /\ u' = [u EXCEPT !.vals = o.vals]
       /\ solves' = Append(solves, IF o.ok THEN "converged" ELSE "failed")
       /\ pc' = "In9"
       /\ err' = IF o.ok THEN err ELSE "RuntimeError"
  /\ UNCHANGED <<ns, manufactured, f_raw, u_code, f_code, u_D, mesh, V, bc,
                 out, reports, u0_at_vertices, u_at_vertices, table, calls>>

(***************************************************************************)
(* In[8]: f = Expression(f_code, degree=1); the form F; solve(F == 0, u,   *)
(* bc) with the default tolerances.  A solve that gives up raises, and the *)
(* exception ends the run.                                                 *)
(***************************************************************************)
In8 ==
  /\ pc = "In8"
  /\ jit_log' = Append(jit_log, f_code)
  /\ IF Compiles(f_code)
     THEN /\ f' = Expression(f_code)
          /\ F' = [kind |-> "form", f |-> f']
          /\ \E o \in NewtonSolve(F', u.vals, bc, DefaultRelTolInv, Recorded) :
               /\ u' = [u EXCEPT !.vals = o.vals]
               /\ solves' = Append(solves, IF o.ok THEN "converged" ELSE "failed")
               /\ pc' = IF o.ok THEN "In9" ELSE "aborted"
               /\ err' = IF o.ok THEN err ELSE "RuntimeError"
     ELSE /\ UNCHANGED <<f, F, u, solves>>
          /\ pc' = "aborted"
          /\ err' = "CompileError"
  /\ UNCHANGED <<ns, manufactured, f_raw, u_code, f_code, u_D, mesh, V, bc,
                 out, reports, u0_at_vertices, u_at_vertices, table, calls>>

(***************************************************************************)
(* In[9]: import numpy as np; def print_max_error, print_errors;           *)
(* print_max_error().                                                      *)
(***************************************************************************)
In9 ==
  /\ pc = "In9"
  /\ print_max_error(interpolate(u_D), u.vals, "In10")
  /\ UNCHANGED <<ns, manufactured, u, f, f_raw, u_code, f_code, u_D, mesh, V,
                 bc, F, jit_log, solves, table, calls>>

(***************************************************************************)
(* In[10]: solve(F == 0, u, bc) with relative_tolerance 1e-6, then         *)
(* print_max_error().                                                      *)
(***************************************************************************)
In10 ==
  /\ pc = "In10"
  /\ \E o \in NewtonSolve(F, u.vals, bc, RelTolInv, Recorded) :
       /\ u' = [u EXCEPT !.vals = o.vals]
       /\ solves' = Append(solves, IF o.ok THEN "converged" ELSE "failed")
       /\ IF o.ok
          THEN print_max_error(interpolate(u_D), u'.vals, "done")
          ELSE /\ pc' = "aborted"
               /\ err' = "RuntimeError"
               /\ UNCHANGED <<out, reports, u0_at_vertices, u_at_vertices>>
  /\ UNCHANGED <<ns, manufactured, f, f_raw, u_code, f_code, u_D, mesh, V, bc,
                 F, jit_log, table, calls>>

(***************************************************************************)
(* The notebook run from the first cell to the last, on affine exact       *)
(* solutions.                                                              *)
(***************************************************************************)
Init == Blank(AffineInputs)

Next == In1 \/ In2 \/ In3 \/ In4 \/ In5 \/ In6 \/ In7 \/ In8 \/ In9 \/ In10

Spec == Init /\ [][Next]_vars

(***************************************************************************)
(* The run with calls of print_max_error() and print_errors() typed in     *)
(* between the cells, once In[9] has defined them: up to MaxCalls calls,   *)
(* before or after the second solve.                                       *)
(***************************************************************************)
CallInputs ==
  {PolyInput(PolyConst(1), cx, 1, cy, 1) :
     cx \in 1..MaxSlope, cy \in 1..MaxSlope}

\* A call that stores the interpolant it computes in the global u.
CallPrintMaxErrorIntoU ==
  /\ pc \in {"In10", "done"}
  /\ Len(calls) < MaxCalls
  /\ print_max_error(interpolate(u_D), u.vals, pc)
  /\ u' = [u EXCEPT !.vals = [k \in Vertices |-> 0]]
  /\ calls' = Append(calls, [fn |-> "print_max_error", at |-> pc])
  /\ UNCHANGED <<ns, manufactured, f, f_raw, u_code, f_code, u_D, mesh, V,
                 bc, F, jit_log, solves, table>>

CallPrintMaxError ==
  /\ pc \in {"In10", "done"}
  /\ Len(calls) < MaxCalls
  /\ print_max_error(interpolate(u_D), u.vals, pc)
  /\ calls' = Append(calls, [fn |-> "print_max_error", at |-> pc])
  /\ UNCHANGED <<ns, manufactured, u, f, f_raw, u_code, f_code, u_D, mesh, V,
                 bc, F, jit_log, solves, table>>

CallPrintErrors ==
  /\ pc \in {"In10", "done"}
  /\ Len(calls) < MaxCalls
  /\ print_errors([k \in Vertices |-> Coordinates(k)], interpolate(u_D),
                  u.vals, pc)
  /\ calls' = Append(calls, [fn |-> "print_errors", at |-> pc])
  /\ UNCHANGED <<ns, manufactured, u, f, f_raw, u_code, f_code, u_D, mesh, V,
                 bc, F, jit_log, solves, reports>>

InitCalls == Blank(CallInputs)

NextCalls == Next \/ CallPrintMaxError \/ CallPrintErrors

SpecCalls == InitCalls /\ [][NextCalls]_vars

(***************************************************************************)
(* print_max_error's arithmetic alone, on arrays of every length up to     *)
(* MaxLen.                                                                 *)
(***************************************************************************)
Arrays == UNION {[1..n -> 0..MaxVal] : n \in 0..MaxLen}

InitEval ==
  /\ pc = "eval"
  /\ err = "none"
  /\ ns = [q |-> "user", sym |-> "sympy"]
  /\ manufactured = Literal
  /\ u = Unbound
  /\ f = Unbound
  /\ f_raw = Unbound
  /\ u_code = <<>>
  /\ f_code = <<>>
  /\ u_D = Unbound
  /\ mesh = Unbound
  /\ V = Unbound
  /\ bc = Unbound
  /\ F = Unbound
  /\ jit_log = <<>>
  /\ solves = <<>>
  /\ out = <<>>
  /\ reports = <<>>
  /\ u0_at_vertices \in Arrays
  /\ u_at_vertices \in Arrays
  /\ table = <<>>
  /\ calls = <<>>

Evaluate ==
  /\ pc = "eval"
  /\ print_max_error(u0_at_vertices, u_at_vertices, "done")
  /\ calls' = Append(calls, [fn |-> "print_max_error", at |-> pc])
  /\ UNCHANGED <<ns, manufactured, u, f, f_raw, u_code, f_code, u_D, mesh, V,
                 bc, F, jit_log, solves, table>>

\* print_errors() on the same arrays; coor and the exact array both come from
\* V, so there are as many coordinate pairs as exact values.
EvaluateTable ==
  /\ pc = "eval"
  /\ print_errors([i \in 1..Len(u0_at_vertices) |-> Coordinates(i)],
                  u0_at_vertices, u_at_vertices, "done")
  /\ calls' = Append(calls, [fn |-> "print_errors", at |-> pc])
  /\ UNCHANGED <<ns, manufactured, u, f, f_raw, u_code, f_code, u_D, mesh, V,
                 bc, F, jit_log, solves, reports>>

NextEval == Evaluate \/ EvaluateTable

SpecEval == InitEval /\ [][NextEval]_vars

(***************************************************************************)
(* Properties.                                                             *)
(***************************************************************************)
Derived == pc \notin {"In1", "In2"}

Emitted == pc \notin {"In1", "In2", "In3"}

NamesOf(toks) == {toks[i].s : i \in {j \in 1..Len(toks) : toks[j].k = "name"}}

\* -10*x - 20*y - 10
LiteralSource ==
  PolyAdd(Term(-10, Mono(1, 0, 0)),
          PolyAdd(Term(-20, Mono(0, 1, 0)), PolyConst(-10)))

\* C1: for u = 1 + x + 2y the derived, simplified source term is the
\* polynomial -10x - 20y - 10, with that value at every coordinate pair, and
\* it is emitted and printed as 'f = -10*x[0] - 20*x[1] - 10'.
C1_LiteralSourceTerm ==
  manufactured = Literal =>
    /\ f.kind = "sym" =>
         /\ f.p = LiteralSource
         /\ \A a \in Samples, b \in Samples :
              /\ EvalPoly(f.p, NumInt(a), NumInt(b))
                   = NumInt(-10 * a - 20 * b - 10)
              /\ EvalExpr(f_raw, NumInt(a), NumInt(b))
                   = NumInt(-10 * a - 20 * b - 10)
    /\ Emitted =>
         /\ Text(f_code) = "-10*x[0] - 20*x[1] - 10"
         /\ out[2] = "f = -10*x[0] - 20*x[1] - 10"

C1_Witness ==
  /\ manufactured = Literal
  /\ pc = "In4"
  /\ f.kind = "sym"
  /\ Len(out) = 2

\* The strong form evaluated by polynomial algebra: expand q(u) * du/dv, then
\* differentiate term by term.
Flux(up, v) ==
  PolyMul(PolyAdd(PolyConst(1), PolyMul(up, up)), PolyDiff(up, v))

StrongFormResidual(up, fp) ==
  PolyAdd(PolyNeg(PolyAdd(PolyDiff(Flux(up, 1), 1), PolyDiff(Flux(up, 2), 2))),
          PolyNeg(fp))

\* C2: for every polynomial exact solution u and q(u) = 1 + u^2, the derived
\* source term f makes -d/dx(q(u) du/dx) - d/dy(q(u) du/dy) - f the zero
\* expression, and simplification leaves the value of f at every coordinate
\* unchanged.
C2_ManufacturedIdentity ==
  pc = "In3" =>
    /\ StrongFormResidual(u.p, f.p) = PolyZero
    /\ \A a \in Samples, b \in Samples :
         EvalExpr(f_raw, NumInt(a), NumInt(b))
           = EvalPoly(f.p, NumInt(a), NumInt(b))

C2_Witness ==
  /\ pc = "In3"
  /\ \E m \in DOMAIN u.p : m[1] = 2
  /\ \E m \in DOMAIN u.p : m[2] = 1
  /\ \E m \in DOMAIN f.p : m[1] > 0 /\ m[2] > 0

RoundTrips(code, p) ==
  \A a \in Samples, b \in Samples :
    LET r == EvalCode(code, NumInt(a), NumInt(b))
    IN r.ok /\ r.v = EvalPoly(p, NumInt(a), NumInt(b))

\* C3: for every symbolic expression e of the workflow and every sample
\* coordinate (a, b), the emitted code string of e evaluated with x[0] = a and
\* x[1] = b gives the value of e at (a, b).
C3_EmissionRoundTrip ==
  /\ pc = "In4" => RoundTrips(u_code, u.p)
  /\ pc \in {"In4", "In5"} /\ f.kind = "sym" => RoundTrips(f_code, f.p)

DependsOn(p, v) == \E m \in DOMAIN p : m[v] > 0

\* C4: in every emitted code string the coordinate symbols appear only as
\* the indexed accesses x[0] and x[1], never as bare names; for
\* u = 1 + x + 2y the emitted string is 'x[0] + 2*x[1] + 1'.
C4_IndexedCoordinates ==
  Emitted =>
    /\ NamesOf(u_code) \cup NamesOf(f_code) \subseteq {"x[0]", "x[1]", "M_PI"}
    /\ pc = "In4" =>
         /\ DependsOn(u.p, 1) <=> "x[0]" \in NamesOf(u_code)
         /\ DependsOn(u.p, 2) <=> "x[1]" \in NamesOf(u_code)
         /\ DependsOn(f.p, 1) <=> "x[0]" \in NamesOf(f_code)
         /\ DependsOn(f.p, 2) <=> "x[1]" \in NamesOf(f_code)
    /\ manufactured = Literal =>
         /\ Text(u_code) = "x[0] + 2*x[1] + 1"
         /\ out[1] = "u = x[0] + 2*x[1] + 1"

C4_Witness ==
  /\ pc = "In4"
  /\ manufactured = Literal
  /\ NamesOf(u_code) = {"x[0]", "x[1]"}

\* C5: for every expression containing pi, the code string handed to the
\* evaluator contains the name pi and no occurrence of the macro name M_PI.
C5_PiRewrite ==
  \A i \in 1..Len(jit_log) :
    (i = 1 /\ HasPi(manufactured)) =>
      /\ "pi" \in NamesOf(jit_log[i])
      /\ "M_PI" \notin NamesOf(jit_log[i])

\* print_max_error has been applied to the two arrays.
Evaluated == calls = <<[fn |-> "print_max_error", at |-> "eval"]>>

\* C6: on two sampled arrays of the same length, print_max_error reports the
\* largest of the signed differences exact[i] - computed[i]: the reported
\* number is one of these differences and none of them exceeds it, with no
\* absolute value taken and the operands not swapped.
C6_MaxSignedDifference ==
  (Evaluated /\ Len(u0_at_vertices) = Len(u_at_vertices)
     /\ Len(u_at_vertices) > 0) =>
    /\ pc = "done"
    /\ Len(reports) = 1
    /\ \E i \in 1..Len(u_at_vertices) :
         reports[1] = u0_at_vertices[i] - u_at_vertices[i]
    /\ \A i \in 1..Len(u_at_vertices) :
         u0_at_vertices[i] - u_at_vertices[i] <= reports[1]
    /\ reports[1] = 0 =>
         /\ \A i \in 1..Len(u_at_vertices) :
              ~(u0_at_vertices[i] > u_at_vertices[i])
         /\ \E i \in 1..Len(u_at_vertices) :
              u0_at_vertices[i] = u_at_vertices[i]
    /\ out = <<"Max error is:  " \o FloatStr(reports[1])>>

C6_Witness ==
  /\ pc = "done"
  /\ Len(u0_at_vertices) = 2
  /\ Len(u_at_vertices) = 2
  /\ reports = <<u0_at_vertices[1] - u_at_vertices[1]>>
  /\ reports[1] < 0

\* C7: whenever the two sampled arrays differ in length, one of them of
\* length 1 included, print_max_error raises and reports no number.
C7_ShapeMismatchRaises ==
  (Evaluated /\ Len(u0_at_vertices) # Len(u_at_vertices)) =>
    /\ pc = "aborted"
    /\ err = "ValueError"
    /\ reports = <<>>
    /\ out = <<>>

C11_SecondSolveIndependent ==
  pc = "In10" =>
    /\ ApplyBC(bc, u.vals) = ApplyBC(bc, Function.vals)
    /\ NewtonSolve(F, u.vals, bc, RelTolInv, Recorded)
         = NewtonSolve(F, Function.vals, bc, RelTolInv, Recorded)

\* C12: boundary(x, on_boundary) returns the on_boundary flag at every point
\* whatever its coordinates, so the Dirichlet condition u = u_D holds at
\* every boundary vertex and constrains no interior vertex.
C12_BoundaryPredicate ==
  bc.kind = "bc" =>
    /\ \A k \in Vertices, flag \in BOOLEAN :
         boundary(Coordinates(k), flag) = flag
    /\ bc.dofs = {k \in Vertices : OnBoundary(k)}
    /\ DOMAIN bc.vals = bc.dofs
    /\ pc # "aborted" =>
         \A k \in Vertices : OnBoundary(k) => bc.vals[k] = AtVertex(u_D, k)
    /\ Len(solves) > 0 =>
         \A k \in Vertices : OnBoundary(k) => u.vals[k] = bc.vals[k]

C12_Witness ==
  /\ bc.kind = "bc"
  /\ pc = "In9"
  /\ Cardinality(bc.dofs) = 2 * (Nx + Ny)
  /\ \E k \in Vertices : ~OnBoundary(k) /\ u.vals[k] # 0

\* C13: print_errors prints its entries in vertex-index order, the i-th with
\* the index, the coordinates of vertex i and the signed difference
\* exact[i] - computed[i] of the same i, none skipped, repeated or paired
\* with another vertex's value; on arrays of one length there is exactly one
\* entry per vertex and one printed line per entry.
C13_OneEntryPerVertex ==
  calls = <<[fn |-> "print_errors", at |-> "eval"]>> =>
    /\ Len(table) <= Len(u0_at_vertices)
    /\ \A i \in 1..Len(table) :
         /\ table[i].i = i - 1
         /\ table[i].x = Coordinates(i)
         /\ table[i].error = u0_at_vertices[i] - u_at_vertices[i]
    /\ Len(out) = Len(table)
    /\ Len(u0_at_vertices) = Len(u_at_vertices) =>
         /\ Len(table) = Len(u0_at_vertices)
         /\ pc = "done"
         /\ err = "none"

C13_Witness ==
  /\ calls = <<[fn |-> "print_errors", at |-> "eval"]>>
  /\ pc = "done"
  /\ Len(table) = MaxLen
  /\ table[1].error < 0
  /\ table[2].error > 0
  /\ table[MaxLen].error = 0
  /\ out[1] = "vertex  0 (        0,        0): error=-0.125"
  /\ out[2] = "vertex  1 (    0.125,        0): error=0.125"

EvaluatorCall == calls' # calls

\* C14: a call of print_max_error or print_errors changes nothing but what
\* it prints: u, u_D, V, the mesh, bc and F stay as they are, a repeated
\* call prints what the call before it printed, and the solve that follows
\* starts from the same field and can end in the same ways.
C14_EvaluatorFrame ==
  [][EvaluatorCall =>
       /\ UNCHANGED <<u, u_D, V, mesh, bc, F, f, solves, pc, err>>
       /\ calls'[Len(calls')].fn = "print_max_error" =>
            reports' = Append(reports, reports[Len(reports)])
       /\ (calls'[Len(calls')].fn = "print_errors" /\ table # <<>>) =>
            table' = table
       /\ pc = "In10" =>
            NewtonSolve(F', u'.vals, bc', RelTolInv, Recorded)
              = NewtonSolve(F, u.vals, bc, RelTolInv, Recorded)]_vars

C14_Witness ==
  /\ pc = "done"
  /\ calls = <<[fn |-> "print_max_error", at |-> "In10"],
               [fn |-> "print_errors", at |-> "In10"]>>
  /\ solves = <<"converged", "converged">>
  /\ reports = <<0, 0, 0>>
  /\ Len(table) = Cardinality(Vertices)

DerivedSource == ccode(simplify(SourceTerm(Leaf(manufactured))))

\* C15: the import runs before q and sym are defined, so wherever a cell
\* uses q or sym the name is bound to the user's q and to SymPy; and the code
\* strings are emitted before u and f are rebound, so u_D, bc and the source
\* term of F come from the manufactured solution and its derived source
\* term while u is the Function and f the Expression.
C15_BindingOrder ==
  /\ pc = "In1" => ns = [q |-> "unbound", sym |-> "unbound"]
  /\ pc # "In1" => ns.q = "user"
  /\ pc \notin {"In1", "In2"} => ns.sym = "sympy"
  /\ u.kind = "fun" => u_code = ccode(manufactured) /\ f_code = DerivedSource
  /\ u_D.kind = "expr" => u_D.code = ccode(manufactured)
  /\ bc.kind = "bc" => bc.g.code = ccode(manufactured)
  /\ F.kind = "form" =>
       /\ F.f.code = DerivedSource
       /\ f = F.f
       /\ u.kind = "fun"

C15_Witness ==
  /\ pc = "In9"
  /\ manufactured = Literal
  /\ ns = [q |-> "user", sym |-> "sympy"]
  /\ F.kind = "form"
  /\ u.kind = "fun"
  /\ Text(F.f.code) = "-10*x[0] - 20*x[1] - 10"
  /\ Text(bc.g.code) = "x[0] + 2*x[1] + 1"

====
